---- MODULE Spec2Model ----
(***************************************************************************)
(* Coal-mine fleet dispatch: the shortest-path oracle, the memoized        *)
(* dispatch solver, the reconstruction of the procedure and the tick-      *)
(* driven playback of Algorithm/Algorithm.py, and the single-mine          *)
(* multi-truck simulation of Truck/Truck.py.                               *)
(***************************************************************************)
EXTENDS Integers, Sequences, FiniteSets

(***************************************************************************)
(* Bounds of the model.                                                    *)
(***************************************************************************)
\* edge distances are drawn from 0..MaxDist (or the edge is absent)
MaxDist == 1
\* the mines start with at most MaxTotalCoal units of coal between them
MaxTotalCoal == 3
\* the truck capacity is drawn from -1..MaxCap
MaxCap == 2
\* the fleet has 1..MaxTrucks trucks
MaxTrucks == 2
\* a frame of the single-mine simulation takes 1..MaxDt time units
MaxDt == 2
\* the single-mine simulation has 1..MaxSimTrucks trucks and a coal mine of
\* 1..MaxSimCoal kg
MaxSimTrucks == 4
MaxSimCoal == 4

(***************************************************************************)
(* Program constants.                                                      *)
(***************************************************************************)
\* LOAD_UNLOAD_TIME
LOAD_UNLOAD_TIME == 1
\* float('inf'), the cost dijkstra returns when the heap runs empty; every
\* operation on costs below treats it as greater than every number
Inf == -1
\* the sites: 'Dump_site' and the mines, numbered in the order of their names
\* (heapq compares the node names when two costs are equal)
Dump == 0
\* mines = [node for node in node_capacities if node != dump_site]: nodes.csv
\* lists two mines
mines == <<1, 2>>
NumMines == Len(mines)
\* one more site that is no row of nodes.csv (a junction of the road network)
Junction == NumMines + 1
Sites == {Dump} \cup {mines[i] : i \in 1..NumMines}
Nodes == Sites \cup {Junction}

Range(s) == {s[i] : i \in DOMAIN s}

RECURSIVE SumSeq(_)
SumSeq(s) == IF s = <<>> THEN 0 ELSE Head(s) + SumSeq(Tail(s))

Min2(a, b) == IF a <= b THEN a ELSE b
Max2(a, b) == IF a >= b THEN a ELSE b

(***************************************************************************)
(* Arithmetic on costs with float('inf').                                  *)
(***************************************************************************)
CostAdd(a, b) == IF a = Inf \/ b = Inf THEN Inf ELSE a + b
CostLess(a, b) == a # Inf /\ (b = Inf \/ a < b)
\* a mutant of CostMax: the sum
CostSum(a, b) == IF a = Inf \/ b = Inf THEN Inf ELSE a + b
CostMax(a, b) == IF a = Inf \/ b = Inf THEN Inf ELSE Max2(a, b)
CostGeq(a, b) == ~CostLess(a, b)

(***************************************************************************)
(* adjacency: every edge of edges.csv is entered in both directions.       *)
(***************************************************************************)
RECURSIVE AdjacencyOneWay(_)
AdjacencyOneWay(es) ==
    IF es = <<>> THEN [n \in Nodes |-> <<>>]
    ELSE LET e == es[Len(es)]
             a == AdjacencyOneWay(SubSeq(es, 1, Len(es) - 1))
         IN [a EXCEPT ![e.src] = Append(@, <<e.dst, e.dist>>)]

RECURSIVE Adjacency(_)
Adjacency(es) ==
    IF es = <<>> THEN [n \in Nodes |-> <<>>]
    ELSE LET e == es[Len(es)]
             a == Adjacency(SubSeq(es, 1, Len(es) - 1))
             b == [a EXCEPT ![e.src] = Append(@, <<e.dst, e.dist>>)]
         IN [b EXCEPT ![e.dst] = Append(@, <<e.src, e.dist>>)]

(***************************************************************************)
(* dijkstra: the heap holds (cost, node, path) tuples and heappop takes    *)
(* the least of them in Python's tuple order.                              *)
(***************************************************************************)
RECURSIVE SeqLeq(_, _)
SeqLeq(s, t) ==
    IF s = <<>> THEN TRUE
    ELSE IF t = <<>> THEN FALSE
    ELSE IF Head(s) # Head(t) THEN Head(s) < Head(t)
    ELSE SeqLeq(Tail(s), Tail(t))

EntryLeq(x, y) ==
    IF x[1] # y[1] THEN x[1] < y[1]
    ELSE IF x[2] # y[2] THEN x[2] < y[2]
    ELSE SeqLeq(x[3], y[3])

HeapTop(queue) == CHOOSE x \in queue : \A y \in queue : EntryLeq(x, y)

RECURSIVE DijkstraLoop(_, _, _, _)
DijkstraLoop(graph, end, queue, visited) ==
    IF queue = {} THEN <<Inf, <<>>>>
    ELSE LET top == HeapTop(queue)
             rest == queue \ {top}
             cost == top[1]
             node == top[2]
             path == Append(top[3], node)
             seen == visited \cup {node}
         IN IF node \in visited THEN DijkstraLoop(graph, end, rest, visited)
            ELSE IF node = end THEN <<cost, path>>
            ELSE DijkstraLoop(graph, end,
                     rest \cup {<<cost + nb[2], nb[1], path>> :
                                  nb \in {n \in Range(graph[node]) : n[1] \notin seen}},
                     seen)

dijkstra(graph, start, end) == DijkstraLoop(graph, end, {<<0, start, <<>>>>}, {})


(***************************************************************************)
(* State.                                                                  *)
(***************************************************************************)
VARIABLES
    pc,               \* where the program is: start, solve, walk, play, done, ...
    edges,            \* the rows of edges.csv
    node_capacities,  \* initial_state: the coal of every mine
    truck_capacity,
    num_trucks,
    memo,             \* dp's memo: key -> makespan
    choice,           \* dp's choice: key -> assignment (<<>> is None)
    stack,            \* the activations of dp that are in their loops, each with its
                      \* key, the trips its loops run through and the number of
                      \* the next one, min_makespan, best_assignment and the trip
                      \* it is recursing on
    ret,              \* the value the last call of dp returned (<<>>: none pending)
    min_total_time,   \* what dp_min_time_multi_truck returned
    w_state,          \* the reconstruction's state, truck_times, truck_locations
    w_times,
    w_locs,
    truck_schedules,  \* per truck, the trips (lists of actions) built for playback
    procedure,        \* the trips in the order they were reconstructed
    truck_states,     \* playback: one record per truck
    global_time,
    snapshots,        \* what print_multi_truck_table showed, tick by tick
    replayed,         \* the same for a second, fresh playback of the schedule
    query,            \* the oracle's last lookup: <<start, end, cost, path>>
    sim_input,        \* Truck.py: what get_user_input returned, in pixels and ticks
    trucks,           \* Truck.py: the Truck objects
    coal_mine,        \* Truck.py: the CoalMine
    loading_queue     \* Truck.py: the ids of the trucks queueing to load

solverVars == <<memo, choice, stack, ret, min_total_time>>
walkVars == <<w_state, w_times, w_locs, truck_schedules, procedure>>
playVars == <<truck_states, global_time, snapshots, replayed>>
inputVars == <<edges, node_capacities, truck_capacity, num_trucks>>
simVars == <<sim_input, trucks, coal_mine, loading_queue>>
vars == <<pc, inputVars, solverVars, walkVars, playVars, query, simVars>>

EmptyDict == [k \in {} |-> 0]
Put(d, k, v) == [x \in DOMAIN d \cup {k} |-> IF x = k THEN v ELSE d[x]]

adjacency == Adjacency(edges)

AllZero(state) == \A i \in DOMAIN state : state[i] = 0

(***************************************************************************)
(* The trips dp tries from a state, in the order its loops visit them.     *)
(* Trucks and mines are numbered from 1 here (truck_id + 1, i + 1).        *)
(***************************************************************************)
RECURSIVE Flatten(_)
Flatten(ss) == IF Len(ss) = 0 THEN <<>> ELSE Head(ss) \o Flatten(Tail(ss))

\* itertools.combinations(s, r)
RECURSIVE Combinations(_, _)
Combinations(s, r) ==
    IF r = 0 THEN << <<>> >>
    ELSE IF Len(s) < r THEN <<>>
    ELSE LET with == Combinations(Tail(s), r - 1)
         IN [k \in 1..Len(with) |-> <<Head(s)>> \o with[k]]
              \o Combinations(Tail(s), r)

RemoveAt(s, i) == SubSeq(s, 1, i - 1) \o SubSeq(s, i + 1, Len(s))

\* itertools.permutations(s)
RECURSIVE Permutations(_)
Permutations(s) ==
    IF Len(s) = 0 THEN << <<>> >>
    ELSE Flatten([i \in 1..Len(s) |->
             LET rest == Permutations(RemoveAt(s, i))
             IN [k \in 1..Len(rest) |-> <<s[i]>> \o rest[k]]])

active_mines(state) == SelectSeq([i \in 1..Len(state) |-> i], LAMBDA i : state[i] > 0)

\* "if sum(coal_to_pick) > truck_capacity: continue"
ComboSkippedNever(state, combo, cap) == FALSE

\* a mutant of ComboSkipped: every trip to more than one mine is skipped
ComboSkippedUnlessSingle(state, combo, cap) ==
    \/ Len(combo) > 1
    \/ SumSeq([k \in 1..Len(combo) |-> Min2(state[combo[k]], cap)]) > cap

ComboSkipped(state, combo, cap) ==
    SumSeq([k \in 1..Len(combo) |-> Min2(state[combo[k]], cap)]) > cap

\* a mutant of Candidates: only the first truck is given trips
CandidatesFirstTruck(state, cap, n) ==
    LET active == active_mines(state)
    IN  Flatten([r \in 1..NumMines |->
          LET combos == Combinations(active, r)
          IN IF r > Len(active) THEN <<>>
             ELSE Flatten([c \in 1..Len(combos) |->
                    IF ComboSkipped(state, combos[c], cap) THEN <<>>
                    ELSE LET perms == Permutations(combos[c])
                         IN [p \in 1..Len(perms) |-> <<1, perms[p]>>]])])

Candidates(state, cap, n) ==
    Flatten([t \in 1..n |->
      Flatten([r \in 1..NumMines |->
        LET active == active_mines(state)
            combos == Combinations(active, r)
        IN IF r > Len(active) THEN <<>>
           ELSE Flatten([c \in 1..Len(combos) |->
                  IF ComboSkipped(state, combos[c], cap) THEN <<>>
                  ELSE LET perms == Permutations(combos[c])
                       IN [p \in 1..Len(perms) |-> <<t, perms[p]>>]])])])

\* route = [current_location] + [mines[i] for i in order] + [dump_site]
Route(loc, order) == <<loc>> \o [k \in 1..Len(order) |-> mines[order[k]]] \o <<Dump>>

RECURSIVE LegsTime(_, _)
LegsTime(graph, route) ==
    IF Len(route) < 2 THEN 0
    ELSE CostAdd(dijkstra(graph, route[1], route[2])[1], LegsTime(graph, Tail(route)))

\* a mutant of TripTime: the loading at the mines takes no time
TripTimeWithoutLoading(graph, loc, order) ==
    CostAdd(LegsTime(graph, Route(loc, order)), LOAD_UNLOAD_TIME)

\* trip_time: the legs of the route, the loading at each mine and the unloading
TripTime(graph, loc, order) ==
    CostAdd(CostAdd(LegsTime(graph, Route(loc, order)), LOAD_UNLOAD_TIME * Len(order)),
            LOAD_UNLOAD_TIME)

\* take = min(new_state[i], remaining_capacity)
TakeAll(coal, remaining_capacity) == coal

\* a mutant of Take: the truck picks up at most one unit less than it can hold
TakeShort(coal, remaining_capacity) == Min2(coal, remaining_capacity - 1)

Take(coal, remaining_capacity) == Min2(coal, remaining_capacity)

\* the "Update state" loop: the new state and what was taken at each mine of order
RECURSIVE LoadTrip(_, _, _)
LoadTrip(state, order, remaining_capacity) ==
    IF Len(order) = 0 THEN [state |-> state, takes |-> <<>>]
    ELSE LET i == Head(order)
             take == Take(state[i], remaining_capacity)
             rest == LoadTrip([state EXCEPT ![i] = @ - take], Tail(order),
                              remaining_capacity - take)
         IN [state |-> rest.state, takes |-> <<take>> \o rest.takes]

\* best_assignment = (truck_id, order, [mines[i] for i in order], route, trip_time)
Assignment(key, cand) ==
    LET t == cand[1]
        order == cand[2]
    IN [truck_id |-> t, order |-> order,
        mines_order |-> [k \in 1..Len(order) |-> mines[order[k]]],
        route |-> Route(key[3][t], order),
        trip_time |-> TripTime(adjacency, key[3][t], order)]

\* a mutant of NextKey: the trip is put on the clock of every truck
NextKeyAllClocks(key, a, cap) ==
    <<LoadTrip(key[1], a.order, cap).state,
      [t \in 1..Len(key[2]) |-> CostAdd(key[2][t], a.trip_time)],
      [key[3] EXCEPT ![a.truck_id] = Dump]>>

\* a mutant of NextKey: dp takes every visited mine to be emptied by the trip
NextKeyEmptied(key, a, cap) ==
    <<[i \in 1..Len(key[1]) |-> IF i \in Range(a.order) THEN 0 ELSE key[1][i]],
      [key[2] EXCEPT ![a.truck_id] = CostAdd(@, a.trip_time)],
      [key[3] EXCEPT ![a.truck_id] = Dump]>>

\* a mutant of NextKey: the truck is left at the last mine of its trip
NextKeyAtLastMine(key, a, cap) ==
    <<LoadTrip(key[1], a.order, cap).state,
      [key[2] EXCEPT ![a.truck_id] = CostAdd(@, a.trip_time)],
      [key[3] EXCEPT ![a.truck_id] = mines[a.order[Len(a.order)]]]>>

\* the key dp is called with after trip a of a truck in the state of key
NextKey(key, a, cap) ==
    <<LoadTrip(key[1], a.order, cap).state,
      [key[2] EXCEPT ![a.truck_id] = CostAdd(@, a.trip_time)],
      [key[3] EXCEPT ![a.truck_id] = Dump]>>

\* a mutant of MaxReturnTime: the return of the last truck of the list alone
LastReturnTime(graph, times, locs, i) ==
    IF i = 0 THEN 0
    ELSE IF locs[i] # Dump THEN CostAdd(times[i], dijkstra(graph, locs[i], Dump)[1])
    ELSE times[i]

\* a mutant of MaxReturnTime: the time of the first truck alone
FirstReturnTime(graph, times, locs, i) ==
    IF i = 0 THEN 0
    ELSE IF locs[1] # Dump THEN CostAdd(times[1], dijkstra(graph, locs[1], Dump)[1])
    ELSE times[1]

\* the base case: the latest return to the dump site
RECURSIVE MaxReturnTime(_, _, _, _)
MaxReturnTime(graph, times, locs, i) ==
    IF i = 0 THEN 0
    ELSE LET before == MaxReturnTime(graph, times, locs, i - 1)
         IN IF locs[i] # Dump
            THEN CostMax(before, CostAdd(times[i], dijkstra(graph, locs[i], Dump)[1]))
            ELSE CostMax(before, times[i])

InitialKey ==
    <<node_capacities, [t \in 1..num_trucks |-> 0], [t \in 1..num_trucks |-> Dump]>>

\* the interpreter's recursion limit: above every depth a solve with a positive
\* capacity reaches within the bounds (one activation per unit of coal, and the
\* call of the base case)
RecursionLimit == MaxTotalCoal + 1


(***************************************************************************)
(* Inputs.                                                                 *)
(***************************************************************************)
\* the pairs of sites a road may join, in the order of their rows in edges.csv
RECURSIVE PairsOf(_)
PairsOf(ns) ==
    IF Len(ns) < 2 THEN <<>>
    ELSE [k \in 1..(Len(ns) - 1) |-> <<ns[1], ns[k + 1]>>] \o PairsOf(Tail(ns))

SitePairs == PairsOf(<<Dump>> \o mines)
NodePairs == PairsOf(<<Dump>> \o mines \o <<Junction>>)

\* the rows of edges.csv for a choice w of distances (Inf: no such row)
EdgeRows(pairs, w) ==
    LET present == SelectSeq([k \in 1..Len(pairs) |-> k], LAMBDA k : w[k] # Inf)
    IN [j \in 1..Len(present) |->
          [src |-> pairs[present[j]][1], dst |-> pairs[present[j]][2],
           dist |-> w[present[j]]]]

Distances == (0..MaxDist) \cup {Inf}
Networks == {EdgeRows(SitePairs, w) : w \in [1..Len(SitePairs) -> Distances]}
OracleNetworks == {EdgeRows(NodePairs, w) : w \in [1..Len(NodePairs) -> Distances]}
Capacities == (0 - 1)..MaxCap
InitialStates == {st \in [1..NumMines -> 0..MaxTotalCoal] : SumSeq(st) <= MaxTotalCoal}

NoSolver ==
    /\ memo = EmptyDict
    /\ choice = EmptyDict
    /\ stack = <<>>
    /\ ret = <<>>
    /\ min_total_time = 0

NoWalk ==
    /\ w_state = <<>>
    /\ w_times = <<>>
    /\ w_locs = <<>>
    /\ truck_schedules = <<>>
    /\ procedure = <<>>

NoPlay ==
    /\ truck_states = <<>>
    /\ global_time = 0
    /\ snapshots = <<>>
    /\ replayed = <<>>

NoSim ==
    /\ sim_input = <<>>
    /\ trucks = <<>>
    /\ coal_mine = <<>>
    /\ loading_queue = <<>>

\* three more contents of the input files, with larger numbers: one mine of
\* 50 kg at distance 10 and a truck of 50 kg; mines of 60 and 40 kg at
\* distances 5 and 8, 3 apart, and a truck of 100 kg; one mine of 60 kg at
\* distance 10 and one or two trucks of 50 kg
OneLoadInput ==
    [edges |-> EdgeRows(SitePairs, <<10, Inf, Inf>>), node_capacities |-> <<50, 0>>,
     truck_capacity |-> 50, num_trucks |-> 1]
TwoMinesInput ==
    [edges |-> EdgeRows(SitePairs, <<5, 8, 3>>), node_capacities |-> <<60, 40>>,
     truck_capacity |-> 100, num_trucks |-> 1]
TwoLoadsInputs ==
    {[edges |-> EdgeRows(SitePairs, <<10, Inf, Inf>>), node_capacities |-> <<60, 0>>,
      truck_capacity |-> 50, num_trucks |-> n] : n \in 1..2}
Scenarios == {OneLoadInput, TwoMinesInput} \cup TwoLoadsInputs

Input == [edges |-> edges, node_capacities |-> node_capacities,
          truck_capacity |-> truck_capacity, num_trucks |-> num_trucks]

Init ==
    /\ pc = "start"
    /\ \/ /\ edges \in Networks
          /\ node_capacities \in InitialStates
          /\ truck_capacity \in Capacities
          /\ num_trucks \in 1..MaxTrucks
       \/ \E given \in Scenarios :
             /\ edges = given.edges
             /\ node_capacities = given.node_capacities
             /\ truck_capacity = given.truck_capacity
             /\ num_trucks = given.num_trucks
    /\ NoSolver
    /\ NoWalk
    /\ NoPlay
    /\ NoSim
    /\ query = <<>>

(***************************************************************************)
(* dp_min_time_multi_truck: dp, one step per call, per return and per      *)
(* store.                                                                  *)
(***************************************************************************)
\* a mutant of Call: dp does not look its key up in the memo
CallWithoutLookup(key, callers) ==
    IF Len(callers) + 1 > RecursionLimit
    THEN /\ pc' = "RecursionError"
         /\ UNCHANGED <<memo, choice, stack, ret>>
    ELSE IF AllZero(key[1])
    THEN LET max_return_time == MaxReturnTime(adjacency, key[2], key[3], Len(key[3]))
         IN /\ memo' = Put(memo, key, max_return_time)
            /\ choice' = Put(choice, key, <<>>)
            /\ ret' = <<max_return_time>>
            /\ pc' = "solve"
            /\ stack' = callers
    ELSE /\ stack' = Append(callers,
                     [key |-> key,
                      trips |-> Candidates(key[1], truck_capacity, num_trucks),
                      next |-> 1, min_makespan |-> Inf,
                      best_assignment |-> <<>>, trip |-> <<>>])
         /\ ret' = <<>>
         /\ pc' = "solve"
         /\ UNCHANGED <<memo, choice>>

\* a call dp(key): the memo lookup, the base case, or a new activation
Call(key, callers) ==
    IF Len(callers) + 1 > RecursionLimit
    THEN /\ pc' = "RecursionError"
         /\ UNCHANGED <<memo, choice, stack, ret>>
    ELSE IF key \in DOMAIN memo
    THEN /\ ret' = <<memo[key]>>
         /\ pc' = "solve"
         /\ stack' = callers
         /\ UNCHANGED <<memo, choice>>
    ELSE IF AllZero(key[1])
    THEN LET max_return_time == MaxReturnTime(adjacency, key[2], key[3], Len(key[3]))
         IN /\ memo' = Put(memo, key, max_return_time)
            /\ choice' = Put(choice, key, <<>>)
            /\ ret' = <<max_return_time>>
            /\ pc' = "solve"
            /\ stack' = callers
    ELSE /\ stack' = Append(callers,
                     [key |-> key,
                      trips |-> Candidates(key[1], truck_capacity, num_trucks),
                      next |-> 1, min_makespan |-> Inf,
                      best_assignment |-> <<>>, trip |-> <<>>])
         /\ ret' = <<>>
         /\ pc' = "solve"
         /\ UNCHANGED <<memo, choice>>

SolveStart ==
    /\ pc = "start"
    /\ Call(InitialKey, <<>>)
    /\ UNCHANGED <<inputVars, min_total_time, walkVars, playVars, query, simVars>>

Top == stack[Len(stack)]
TopCandidates == Top.trips

\* the loops reach their next trip and recurse
DpRecurse ==
    /\ pc = "solve"
    /\ stack # <<>>
    /\ ret = <<>>
    /\ Top.next <= Len(TopCandidates)
    /\ LET a == Assignment(Top.key, TopCandidates[Top.next])
       IN Call(NextKey(Top.key, a, truck_capacity),
               [stack EXCEPT ![Len(stack)].trip = <<a>>])
    /\ UNCHANGED <<inputVars, min_total_time, walkVars, playVars, query, simVars>>

\* "if makespan < min_makespan"
ImprovesOrTies(makespan, min_makespan) == ~CostLess(min_makespan, makespan)

FirstFound(makespan, min_makespan) == min_makespan = Inf /\ makespan # Inf

Improves(makespan, min_makespan) == CostLess(makespan, min_makespan)

\* the recursive call returned: keep the trip if it is better
DpReturn ==
    /\ pc = "solve"
    /\ stack # <<>>
    /\ ret # <<>>
    /\ LET makespan == ret[1]
           a == Top.trip[1]
           better == Improves(makespan, Top.min_makespan)
       IN stack' = [stack EXCEPT ![Len(stack)] =
                      [key |-> Top.key, trips |-> Top.trips, next |-> Top.next + 1,
                       min_makespan |-> IF better THEN makespan ELSE Top.min_makespan,
                       best_assignment |-> IF better THEN <<a>> ELSE Top.best_assignment,
                       trip |-> <<>>]]
    /\ ret' = <<>>
    /\ UNCHANGED <<pc, inputVars, memo, choice, min_total_time, walkVars, playVars, query, simVars>>

\* the loops are over: memo[key] = min_makespan, choice[key] = best_assignment
DpStore ==
    /\ pc = "solve"
    /\ stack # <<>>
    /\ ret = <<>>
    /\ Top.next > Len(TopCandidates)
    /\ memo' = Put(memo, Top.key, Top.min_makespan)
    /\ choice' = Put(choice, Top.key, Top.best_assignment)
    /\ ret' = <<Top.min_makespan>>
    /\ stack' = SubSeq(stack, 1, Len(stack) - 1)
    /\ UNCHANGED <<pc, inputVars, min_total_time, walkVars, playVars, query, simVars>>

\* dp(initial_state, ...) returned: the reconstruction starts
SolveReturn ==
    /\ pc = "solve"
    /\ stack = <<>>
    /\ ret # <<>>
    /\ min_total_time' = ret[1]
    /\ ret' = <<>>
    /\ pc' = "walk"
    /\ w_state' = node_capacities
    /\ w_times' = [t \in 1..num_trucks |-> 0]
    /\ w_locs' = [t \in 1..num_trucks |-> Dump]
    /\ truck_schedules' = [t \in 1..num_trucks |-> <<>>]
    /\ procedure' = <<>>
    /\ UNCHANGED <<inputVars, memo, choice, stack, playVars, query, simVars>>


(***************************************************************************)
(* The reconstruction of the trips from choice                             *)
(* (realtime_multi_truck_progress, dp_min_time_multi_truck_with_procedure).*)
(***************************************************************************)
\* the action list of one trip: travel and load per mine, travel back, unload
RECURSIVE MineActions(_, _, _)
MineActions(graph, loc, mines_order) ==
    IF Len(mines_order) = 0 THEN <<>>
    ELSE LET mine == Head(mines_order)
         IN << [type |-> "travel", site |-> mine,
                duration |-> dijkstra(graph, loc, mine)[1]],
               [type |-> "load", site |-> mine, duration |-> LOAD_UNLOAD_TIME] >>
            \o MineActions(graph, mine, Tail(mines_order))

TripActions(graph, loc, mines_order) ==
    LET last == IF Len(mines_order) = 0 THEN loc ELSE mines_order[Len(mines_order)]
    IN MineActions(graph, loc, mines_order)
       \o << [type |-> "travel", site |-> Dump,
              duration |-> dijkstra(graph, last, Dump)[1]],
             [type |-> "unload", site |-> Dump, duration |-> LOAD_UNLOAD_TIME] >>

WalkKey == <<w_state, w_times, w_locs>>

\* "truck_times[truck_id] += trip_time"
TimesNotAdvanced(times, t, trip_time) == times

TimesAfterTrip(times, t, trip_time) == [times EXCEPT ![t] = CostAdd(@, trip_time)]

\* choice.get(key)
ChoiceGet(key) == IF key \in DOMAIN choice THEN choice[key] ELSE <<>>

InitialTruckState ==
    [status |-> <<"Waiting...">>, capacity |-> truck_capacity, current_trip |-> 0,
     current_action |-> 0, action_time_left |-> 0, loaded |-> 0]

\* a mutant of FreshTruckStates: the records of the last playback are kept
StaleTruckStates ==
    IF truck_states = <<>> THEN [t \in 1..num_trucks |-> InitialTruckState]
    ELSE truck_states

\* truck_states = [{...} for _ in range(num_trucks)]
FreshTruckStates == [t \in 1..num_trucks |-> InitialTruckState]

\* one pass of "while not all(coal == 0 for coal in state)"
WalkStep ==
    /\ pc = "walk"
    /\ IF AllZero(w_state) \/ ChoiceGet(WalkKey) = <<>>
       THEN /\ pc' = "play"
            /\ truck_states' = FreshTruckStates
            /\ global_time' = 0
            /\ UNCHANGED <<walkVars, snapshots, replayed>>
       ELSE LET a == ChoiceGet(WalkKey)[1]
                t == a.truck_id
                loaded == LoadTrip(w_state, a.order, truck_capacity)
            IN /\ truck_schedules' =
                     [truck_schedules EXCEPT
                        ![t] = Append(@, TripActions(adjacency, w_locs[t], a.mines_order))]
               /\ procedure' = Append(procedure,
                     [truck_id |-> t, order |-> a.order, route |-> a.route,
                      trip_time |-> a.trip_time, takes |-> loaded.takes,
                      completion |-> CostAdd(w_times[t], a.trip_time)])
               /\ w_state' = loaded.state
               /\ w_times' = TimesAfterTrip(w_times, t, a.trip_time)
               /\ w_locs' = [w_locs EXCEPT ![t] = Dump]
               /\ UNCHANGED <<pc, playVars>>
    /\ UNCHANGED <<inputVars, solverVars, query, simVars>>

(***************************************************************************)
(* The playback: one PlayTick is one pass of "while not all_done".         *)
(***************************************************************************)
TripsDone(t) == truck_states[t].current_trip >= Len(truck_schedules[t])

\* a mutant of StartAction: every action is given one second more
StartActionSlow(truck, actions) ==
    IF truck.action_time_left <= 0
    THEN LET action == actions[truck.current_action + 1]
         IN [truck EXCEPT
               !.action_time_left = action.duration + 1,
               !.status = IF action.type = "travel" THEN <<"Travel to", action.site>>
                          ELSE IF action.type = "load" THEN <<"Loading at", action.site>>
                          ELSE <<"Unloading at", action.site>>,
               !.loaded = IF action.type = "load" THEN Min2(@ + 1, truck_capacity)
                          ELSE IF action.type = "unload" THEN 0
                          ELSE @]
    ELSE truck

\* "if truck['action_time_left'] <= 0": start the next action
StartAction(truck, actions) ==
    IF truck.action_time_left <= 0
    THEN LET action == actions[truck.current_action + 1]
         IN [truck EXCEPT
               !.action_time_left = action.duration,
               !.status = IF action.type = "travel" THEN <<"Travel to", action.site>>
                          ELSE IF action.type = "load" THEN <<"Loading at", action.site>>
                          ELSE <<"Unloading at", action.site>>,
               !.loaded = IF action.type = "load" THEN Min2(@ + 1, truck_capacity)
                          ELSE IF action.type = "unload" THEN 0
                          ELSE @]
    ELSE truck

\* "if truck['action_time_left'] > 0": advance the action by one second
AdvanceAction(truck, actions) ==
    IF truck.action_time_left > 0
    THEN LET left == truck.action_time_left - 1
             action_done == left = 0
             trip_done == action_done /\ truck.current_action + 1 >= Len(actions)
         IN [truck EXCEPT
               !.action_time_left = left,
               !.capacity = truck_capacity - truck.loaded,
               !.current_action = IF trip_done THEN 0
                                  ELSE IF action_done THEN @ + 1 ELSE @,
               !.current_trip = IF trip_done THEN @ + 1 ELSE @]
    ELSE truck

TickTruck(truck, schedule) ==
    IF truck.current_trip >= Len(schedule)
    THEN [truck EXCEPT !.status = <<"Idle">>]
    ELSE LET actions == schedule[truck.current_trip + 1]
         IN AdvanceAction(StartAction(truck, actions), actions)

\* the table shown at the end of a pass: the tick and every truck's record
Snapshot(time, states) == <<time, states>>

\* one pass of the loop of a playback that is at "running"
PlayLoop(running, stopped) ==
    /\ pc = running
    /\ truck_states' = [t \in 1..num_trucks |-> TickTruck(truck_states[t], truck_schedules[t])]
    /\ global_time' = global_time + 1
    /\ pc' = IF (\A t \in 1..num_trucks : TripsDone(t))
                \/ CostGeq(global_time + 1, min_total_time)
             THEN stopped ELSE running
    /\ UNCHANGED <<inputVars, solverVars, walkVars, query, simVars>>

PlayTick ==
    /\ PlayLoop("play", "done")
    /\ snapshots' = Append(snapshots, Snapshot(global_time, truck_states'))
    /\ UNCHANGED replayed

\* the playback is started again on the schedule it has played
PlayAgain ==
    /\ pc = "done"
    /\ pc' = "replay"
    /\ truck_states' = FreshTruckStates
    /\ global_time' = 0
    /\ UNCHANGED <<inputVars, solverVars, walkVars, snapshots, replayed, query, simVars>>

ReplayTick ==
    /\ PlayLoop("replay", "replayed")
    /\ replayed' = Append(replayed, Snapshot(global_time, truck_states'))
    /\ UNCHANGED snapshots

Solve == SolveStart \/ DpRecurse \/ DpReturn \/ DpStore \/ SolveReturn

Next == Solve \/ WalkStep \/ PlayTick \/ PlayAgain \/ ReplayTick

Spec == Init /\ [][Next]_vars


(***************************************************************************)
(* Properties.                                                             *)
(***************************************************************************)
\* the sites joined to the dump site by roads
RECURSIVE ReachableFrom(_, _)
ReachableFrom(es, seen) ==
    LET more == seen \cup {e.dst : e \in {x \in Range(es) : x.src \in seen}}
                     \cup {e.src : e \in {x \in Range(es) : x.dst \in seen}}
    IN IF more = seen THEN seen ELSE ReachableFrom(es, more)

Connected == Sites \subseteq ReachableFrom(edges, {Dump})
Trucks == 1..num_trucks
Solved == pc \in {"walk", "play", "done"}
Walked == pc \in {"play", "done"}
JustSolved == pc = "walk" /\ procedure = <<>>

CostMinSet(S) == IF \A x \in S : x = Inf THEN Inf
                 ELSE CHOOSE x \in S : x # Inf /\ \A y \in S : y = Inf \/ x <= y

CostMaxSet(S) == CHOOSE x \in S : \A y \in S : CostGeq(x, y)

\* C1: on a connected network with a positive capacity, every state of the walk
\* through choice has a memoized choice, the choice is the terminal marker only
\* where every mine is empty, and the walk ends with every mine empty and every
\* truck at the dump site.
C1_WalkReachesTerminal ==
    (Connected /\ truck_capacity > 0 /\ Solved) =>
        /\ WalkKey \in DOMAIN choice
        /\ (choice[WalkKey] = <<>>) <=> AllZero(w_state)
        /\ Walked => (AllZero(w_state) /\ \A t \in Trucks : w_locs[t] = Dump)

C1_Witness ==
    /\ pc = "play"
    /\ Connected /\ truck_capacity > 0 /\ num_trucks = 2
    /\ Len(procedure) >= 3
    /\ AllZero(w_state)

\* the keys dp is called with from a key
Successors(key) ==
    LET cands == Candidates(key[1], truck_capacity, num_trucks)
    IN {NextKey(key, Assignment(key, cands[k]), truck_capacity) : k \in 1..Len(cands)}

\* C2: when dp has returned, the value memoized for every state with coal left
\* is the least of the values memoized for the states its trips lead to, the
\* value of a state without coal is the latest truck time, and the makespan
\* returned is the least value of a state without coal that the search reached.
C2_MemoIsMinimum ==
    JustSolved =>
        /\ \A key \in DOMAIN memo :
              IF AllZero(key[1])
              THEN memo[key] = CostMaxSet(Range(key[2]))
              ELSE /\ Successors(key) \subseteq DOMAIN memo
                   /\ memo[key] = CostMinSet({memo[k] : k \in Successors(key)})
        /\ min_total_time = memo[InitialKey]
        /\ min_total_time = CostMinSet({memo[k] : k \in {x \in DOMAIN memo : AllZero(x[1])}})

C2_Witness ==
    /\ JustSolved
    /\ num_trucks = 2
    /\ min_total_time # Inf
    /\ \E key \in DOMAIN memo :
          /\ ~AllZero(key[1])
          /\ Cardinality({memo[k] : k \in Successors(key)}) >= 2
          /\ choice[key][1].truck_id = 2

\* C3: no trip of the reconstructed procedure picks up more than the capacity.
C3_TripWithinCapacity ==
    \A k \in 1..Len(procedure) : SumSeq(procedure[k].takes) <= truck_capacity

C3_Witness ==
    /\ Walked
    /\ \E i \in 1..NumMines : node_capacities[i] > truck_capacity
    /\ \E k \in 1..Len(procedure) : SumSeq(procedure[k].takes) = truck_capacity
    /\ Len(procedure) >= 2


(***************************************************************************)
(* Playback accounting: what the trips of the procedure have moved by the  *)
(* actions the playback has started.                                       *)
(***************************************************************************)
TripsOf(t) == SelectSeq(procedure, LAMBDA r : r.truck_id = t)

\* action number a of trip number k of truck t has been started
ActionStarted(t, k, a) ==
    LET truck == truck_states[t]
    IN \/ k <= truck.current_trip
       \/ /\ k = truck.current_trip + 1
          /\ \/ a <= truck.current_action
             \/ a = truck.current_action + 1 /\ truck.action_time_left > 0

\* the load at the j-th mine of a trip is its action 2j, the unload its last one
PickedUp(t) ==
    LET trips == TripsOf(t)
    IN SumSeq([k \in 1..Len(trips) |->
          SumSeq([j \in 1..Len(trips[k].takes) |->
             IF ActionStarted(t, k, 2 * j) THEN trips[k].takes[j] ELSE 0])])

Unloaded(t) ==
    LET trips == TripsOf(t)
    IN SumSeq([k \in 1..Len(trips) |->
          IF ActionStarted(t, k, 2 * Len(trips[k].takes) + 2)
          THEN SumSeq(trips[k].takes) ELSE 0])

InitialTotal == SumSeq(node_capacities)
RemainingInMines == InitialTotal - SumSeq([t \in 1..num_trucks |-> PickedUp(t)])
UnloadedAtDump == SumSeq([t \in 1..num_trucks |-> Unloaded(t)])
ReportedCargo == SumSeq([t \in 1..num_trucks |-> truck_states[t].loaded])

\* C4: at every tick of the playback the coal left in the mines, the cargo
\* reported for the trucks and the coal unloaded at the dump site add up to the
\* initial total.
C4_Conservation ==
    (pc \in {"play", "done"}) =>
        RemainingInMines + ReportedCargo + UnloadedAtDump = InitialTotal

LoadingAt(t, mine) == truck_states[t].status = <<"Loading at", mine>>

\* C5: at most one truck is loading at a mine at any tick of the playback.
C5_OneLoaderPerMine ==
    (pc \in {"play", "done"}) =>
        \A t1, t2 \in Trucks : \A i \in 1..NumMines :
            (LoadingAt(t1, mines[i]) /\ LoadingAt(t2, mines[i])) => t1 = t2

\* C7: when the tick loop of the playback stops, every truck has executed all
\* the trips of its schedule.
C7_PlaybackExecutesAllTrips ==
    pc = "done" =>
        \A t \in Trucks : truck_states[t].current_trip = Len(truck_schedules[t])

\* some mine that holds coal is joined to the dump site by no road
UnreachableMine ==
    \E i \in 1..NumMines :
        node_capacities[i] > 0 /\ mines[i] \notin ReachableFrom(edges, {Dump})

\* C8: with a mine that holds coal and has no path to the dump site, the solve
\* fails with UnreachableError: dp never returns a value and no trips are
\* reconstructed.
C8_UnreachableAborts ==
    (UnreachableMine /\ truck_capacity > 0) =>
        pc \in {"start", "solve", "UnreachableError"}

\* C9: with a capacity <= 0 the solve fails with InfeasibleConfigError before
\* dp expands any state.
C9_InfeasibleFailsFast ==
    truck_capacity <= 0 =>
        /\ pc \in {"start", "InfeasibleConfigError"}
        /\ stack = <<>>
        /\ memo = EmptyDict


(***************************************************************************)
(* The shortest-path lookup on its own: any road network over the dump     *)
(* site, the mines and a junction, and any lookup dijkstra(adjacency, a, b)*)
(***************************************************************************)
NoInputs ==
    /\ node_capacities = [i \in 1..NumMines |-> 0]
    /\ truck_capacity = 0
    /\ num_trucks = 0

OracleInit ==
    /\ pc = "oracle"
    /\ edges \in OracleNetworks
    /\ query = <<>>
    /\ NoInputs
    /\ NoSolver
    /\ NoWalk
    /\ NoPlay
    /\ NoSim

Shortest(a, b) ==
    /\ pc = "oracle"
    /\ query = <<>>
    /\ LET found == dijkstra(adjacency, a, b)
       IN query' = <<a, b, found[1], found[2]>>
    /\ UNCHANGED <<pc, inputVars, solverVars, walkVars, playVars, simVars>>

OracleNext == \E a, b \in Nodes : Shortest(a, b)

OracleSpec == OracleInit /\ [][OracleNext]_vars

\* C10: the cost of the lookup from a to b is the cost of the lookup from b to
\* a, and the cost from a site to itself is 0.
C10_CostSymmetric ==
    (pc = "oracle" /\ query # <<>>) =>
        /\ query[3] = dijkstra(adjacency, query[2], query[1])[1]
        /\ query[1] = query[2] => query[3] = 0

C10_Witness ==
    /\ pc = "oracle"
    /\ query # <<>>
    /\ query[1] > query[2]
    /\ Len(query[4]) >= 3
    /\ query[3] > 0

(***************************************************************************)
(* Truck.py: the single-mine simulation.  Positions are pixels relative to *)
(* dump_site_pos, so the dump site is at x = 0 and the coal mine at        *)
(* x = sim_input.distance; y is 0 at the dump site, -road_offset on the    *)
(* upper road and +road_offset on the lower road.  dt is the whole number  *)
(* of time units a frame took.                                             *)
(***************************************************************************)
min_spacing == 35
road_offset == 30
ArrivalTolerance == 5

\* what get_user_input returns (all values are positive, at most 10 trucks),
\* with the distance and the speed already converted to pixels
RoadLengths == {20, 60}
Speeds == {15}
LoadTimes == {1, 6}
SimInputs ==
    [distance : RoadLengths, coal_amount : 1..MaxSimCoal,
     truck_capacity : 1..MaxCap, speed_pps : Speeds, load_time : LoadTimes,
     num_trucks : 1..MaxSimTrucks]

\* the frame times the main loop can measure
Dts == 1..MaxDt

\* Truck.__init__; ids count from 0 as in run_simulation
NewTruck(truck_id) ==
    [id |-> truck_id, state |-> "to_mine", x |-> 0, y |-> 0, load_timer |-> 0,
     cargo |-> 0, trips_completed |-> 0]

\* CoalMine.__init__
CoalMine(initial_coal) ==
    [initial_coal |-> initial_coal, coal_amount |-> initial_coal, dumped_coal |-> 0]

SimInit ==
    /\ pc = "sim"
    /\ sim_input \in SimInputs
    /\ trucks = [i \in 1..sim_input.num_trucks |-> NewTruck(i - 1)]
    /\ coal_mine = CoalMine(sim_input.coal_amount)
    /\ loading_queue = <<>>
    /\ edges = <<>>
    /\ query = <<>>
    /\ NoInputs
    /\ NoSolver
    /\ NoWalk
    /\ NoPlay

\* a world is what Truck.update reads and writes
World(ts, mine, queue) == [trucks |-> ts, coal_mine |-> mine, loading_queue |-> queue]

Abs(n) == IF n < 0 THEN 0 - n ELSE n

\* the truck ahead: the last truck of the list with a lower id and the state st
AheadOf(ts, i, st) ==
    LET lower == {j \in 1..Len(ts) : ts[j].id < ts[i].id /\ ts[j].state = st}
    IN  IF lower = {} THEN <<>> ELSE <<CHOOSE j \in lower : \A k \in lower : k <= j>>

\* math.sqrt(dx**2 + dy**2) < min_spacing
TooClose(ts, i, st) ==
    LET ahead == AheadOf(ts, i, st)
    IN  /\ ahead # <<>>
        /\ LET dx == ts[ahead[1]].x - ts[i].x
               dy == ts[ahead[1]].y - ts[i].y
           IN  dx * dx + dy * dy < min_spacing * min_spacing

\* position[0] += copysign(min(move_dist, abs(direction[0])), direction[0])
MoveTowards(x, target_x, move_dist) ==
    IF target_x >= x THEN x + Min2(move_dist, target_x - x)
    ELSE x - Min2(move_dist, x - target_x)

OtherLoading(ts, i) == \E j \in 1..Len(ts) : j # i /\ ts[j].state = "loading"

\* loading_queue and loading_queue[0] == self.id and not any(... 'loading' ...)
CanStartLoading(w, i) ==
    /\ w.loading_queue # <<>>
    /\ Head(w.loading_queue) = w.trucks[i].id
    /\ ~OtherLoading(w.trucks, i)

\* a mutant of Enqueue: the truck joins the queue at its head
EnqueueFront(queue, id) ==
    IF id \in Range(queue) THEN queue ELSE <<id>> \o queue

\* if self.id not in loading_queue: loading_queue.append(self.id)
Enqueue(queue, id) ==
    IF id \in Range(queue) THEN queue ELSE Append(queue, id)

\* loading_queue.remove(self.id)
Remove(queue, id) ==
    RemoveAt(queue, CHOOSE k \in 1..Len(queue) :
                        queue[k] = id /\ \A j \in 1..(k - 1) : queue[j] # id)

\* Truck.update, state 'to_mine'
UpdateToMine(w, i, dt) ==
    LET self == w.trucks[i]
        target_x == sim_input.distance
        target_y == 0 - road_offset
    IN  IF TooClose(w.trucks, i, "to_mine") THEN w
        ELSE IF Abs(self.x - target_x) > ArrivalTolerance
        THEN [w EXCEPT !.trucks[i].x =
                           MoveTowards(self.x, target_x, sim_input.speed_pps * dt),
                       !.trucks[i].y = target_y]
        ELSE LET here == [w EXCEPT !.trucks[i].x = target_x,
                                   !.trucks[i].y = target_y]
             IN  IF w.coal_mine.coal_amount > 0
                 THEN LET queued == [here EXCEPT !.loading_queue =
                                         Enqueue(w.loading_queue, self.id)]
                      IN  IF CanStartLoading(queued, i)
                          THEN [queued EXCEPT !.trucks[i].state = "loading",
                                              !.trucks[i].load_timer = 0]
                          ELSE [queued EXCEPT !.trucks[i].state = "waiting"]
                 ELSE here

\* Truck.update, state 'to_dump'
UpdateToDump(w, i, dt) ==
    LET self == w.trucks[i]
        target_x == 0
        target_y == road_offset
    IN  IF TooClose(w.trucks, i, "to_dump") THEN w
        ELSE IF Abs(self.x - target_x) > ArrivalTolerance
        THEN [w EXCEPT !.trucks[i].x =
                           MoveTowards(self.x, target_x, sim_input.speed_pps * dt),
                       !.trucks[i].y = target_y]
        ELSE [w EXCEPT !.trucks[i].x = target_x,
                       !.trucks[i].y = target_y,
                       !.trucks[i].state = "unloading",
                       !.trucks[i].load_timer = 0]

\* Truck.update, state 'waiting'
UpdateWaiting(w, i) ==
    IF CanStartLoading(w, i) /\ w.coal_mine.coal_amount > 0
    THEN [w EXCEPT !.trucks[i].state = "loading", !.trucks[i].load_timer = 0]
    ELSE w

\* a mutant of UpdateLoading: the truck stays in the queue when it leaves
UpdateLoadingStaysQueued(w, i, dt) ==
    LET self == w.trucks[i]
        timer == self.load_timer + dt
    IN  IF timer >= sim_input.load_time
        THEN LET load_amount == Min2(sim_input.truck_capacity, w.coal_mine.coal_amount)
             IN  [w EXCEPT !.trucks[i].load_timer = timer,
                           !.trucks[i].cargo = load_amount,
                           !.trucks[i].state = "to_dump",
                           !.coal_mine.coal_amount = @ - load_amount]
        ELSE [w EXCEPT !.trucks[i].load_timer = timer]

\* Truck.update, state 'loading'
UpdateLoading(w, i, dt) ==
    LET self == w.trucks[i]
        timer == self.load_timer + dt
    IN  IF timer >= sim_input.load_time
        THEN LET load_amount == Min2(sim_input.truck_capacity, w.coal_mine.coal_amount)
             IN  [w EXCEPT !.trucks[i].load_timer = timer,
                           !.trucks[i].cargo = load_amount,
                           !.trucks[i].state = "to_dump",
                           !.coal_mine.coal_amount = @ - load_amount,
                           !.loading_queue =
                               IF self.id \in Range(@) THEN Remove(@, self.id) ELSE @]
        ELSE [w EXCEPT !.trucks[i].load_timer = timer]

\* a mutant of UpdateUnloading: the cargo stays on the truck
UpdateUnloadingKeepsCargo(w, i, dt) ==
    LET self == w.trucks[i]
        timer == self.load_timer + dt
    IN  IF timer >= sim_input.load_time
        THEN [w EXCEPT !.trucks[i].load_timer = timer,
                       !.trucks[i].trips_completed = @ + 1,
                       !.trucks[i].state =
                           IF w.coal_mine.coal_amount > 0 THEN "to_mine" ELSE "finished",
                       !.coal_mine.dumped_coal = @ + self.cargo]
        ELSE [w EXCEPT !.trucks[i].load_timer = timer]

\* Truck.update, state 'unloading'
UpdateUnloading(w, i, dt) ==
    LET self == w.trucks[i]
        timer == self.load_timer + dt
    IN  IF timer >= sim_input.load_time
        THEN [w EXCEPT !.trucks[i].load_timer = timer,
                       !.trucks[i].cargo = 0,
                       !.trucks[i].trips_completed = @ + 1,
                       !.trucks[i].state =
                           IF w.coal_mine.coal_amount > 0 THEN "to_mine" ELSE "finished",
                       !.coal_mine.dumped_coal = @ + self.cargo]
        ELSE [w EXCEPT !.trucks[i].load_timer = timer]

\* Truck.update
Update(w, i, dt) ==
    LET state == w.trucks[i].state
    IN  CASE state = "to_mine" -> UpdateToMine(w, i, dt)
          [] state = "to_dump" -> UpdateToDump(w, i, dt)
          [] state = "waiting" -> UpdateWaiting(w, i)
          [] state = "loading" -> UpdateLoading(w, i, dt)
          [] state = "unloading" -> UpdateUnloading(w, i, dt)
          [] OTHER -> w

\* for truck in trucks: truck.update(dt, coal_mine, loading_queue, trucks)
RECURSIVE UpdateFrom(_, _, _)
UpdateFrom(w, i, dt) ==
    IF i > Len(w.trucks) THEN w ELSE UpdateFrom(Update(w, i, dt), i + 1, dt)

\* one pass of the main loop of run_simulation
SimTick(dt) ==
    /\ pc = "sim"
    /\ LET w == UpdateFrom(World(trucks, coal_mine, loading_queue), 1, dt)
       IN  /\ trucks' = w.trucks
           /\ coal_mine' = w.coal_mine
           /\ loading_queue' = w.loading_queue
    /\ UNCHANGED <<pc, sim_input, inputVars, solverVars, walkVars, playVars, query>>

SimNext == \E dt \in Dts : SimTick(dt)

SimSpec == SimInit /\ [][SimNext]_vars

\* the trucks that reach the coal mine in a step, and those that start to load
Arrived ==
    {i \in DOMAIN trucks :
        trucks[i].state = "to_mine" /\ trucks'[i].state \in {"loading", "waiting"}}
StartedLoading ==
    {i \in DOMAIN trucks : trucks[i].state # "loading" /\ trucks'[i].state = "loading"}

Before(queue, a, b) ==
    \E j, k \in DOMAIN queue : j < k /\ queue[j] = a /\ queue[k] = b

FifoStep ==
    /\ Range(loading_queue') \ Range(loading_queue) = {trucks[i].id : i \in Arrived}
    /\ \A a, b \in Range(loading_queue') :
          Before(loading_queue', a, b) =>
              \/ Before(loading_queue, a, b)
              \/ a \in Range(loading_queue) /\ b \notin Range(loading_queue)
              \/ a \notin Range(loading_queue) /\ b \notin Range(loading_queue) /\ a < b
    /\ \A i \in StartedLoading : \A j \in DOMAIN trucks :
          (j # i /\ trucks'[j].state = "waiting") =>
              Before(loading_queue', trucks[i].id, trucks[j].id)

\* C6: the loading queue holds the trucks in the order in which they reached
\* the coal mine, the trucks that reach it in the same pass of the main loop in
\* ascending id, and a truck that starts to load is ahead in that order of
\* every truck that is still waiting.
C6_FifoLoading == [][FifoStep]_vars

C6_Witness ==
    /\ pc = "sim"
    /\ Len(loading_queue) >= 3
    /\ trucks[loading_queue[1] + 1].state = "loading"
    /\ trucks[loading_queue[2] + 1].state = "waiting"
    /\ trucks[loading_queue[3] + 1].state = "waiting"
    /\ loading_queue[2] > loading_queue[3]


(***************************************************************************)
(* Further properties of the playback and of the solver.                   *)
(***************************************************************************)
IsPrefix(s, t) == Len(s) <= Len(t) /\ \A k \in 1..Len(s) : s[k] = t[k]

ReplayStep ==
    /\ pc \in {"play", "replay"} => truck_schedules' = truck_schedules
    /\ pc' \in {"replay", "replayed"} => IsPrefix(replayed', snapshots')
    /\ pc' = "replayed" => replayed' = snapshots'

C12_TripDuration ==
    /\ \A k \in 1..Len(procedure) :
          LET trip == procedure[k]
          IN  trip.trip_time =
                  CostAdd(CostAdd(LegsTime(adjacency, trip.route),
                                  LOAD_UNLOAD_TIME * Len(trip.order)),
                          LOAD_UNLOAD_TIME)
    /\ (Input = OneLoadInput /\ Walked) =>
          /\ Len(procedure) = 1
          /\ procedure[1].trip_time = 23
          /\ min_total_time = 23

\* the cost of one trip from the dump site to a mine and back
RoundTrip(mine) ==
    CostAdd(CostAdd(dijkstra(adjacency, Dump, mine)[1], dijkstra(adjacency, mine, Dump)[1]),
            2 * LOAD_UNLOAD_TIME)

\* two trucks, both mines joined to the dump site and not to each other, each
\* mine holding at most one load and the two together more than one
StarOfTwoMines ==
    /\ num_trucks = 2
    /\ {<<e.src, e.dst>> : e \in Range(edges)} = {<<Dump, mines[1]>>, <<Dump, mines[2]>>}
    /\ \A i \in 1..NumMines : node_capacities[i] \in 1..truck_capacity
    /\ SumSeq(node_capacities) > truck_capacity

\* C13: with two trucks and two mines joined only to the dump site, each mine
\* holding at most one load and the two together more than one, the makespan is
\* the round trip cost of the more expensive mine, less than the sum of the two
\* round trips.
C13_ParallelDispatch ==
    (StarOfTwoMines /\ Solved) =>
        /\ min_total_time = Max2(RoundTrip(mines[1]), RoundTrip(mines[2]))
        /\ min_total_time < RoundTrip(mines[1]) + RoundTrip(mines[2])

C13_Witness ==
    /\ StarOfTwoMines
    /\ Walked
    /\ RoundTrip(mines[1]) < RoundTrip(mines[2])
    /\ node_capacities[1] > node_capacities[2]
    /\ Len(procedure) = 2

\* one truck that can take all the coal at once, every mine that holds coal
\* being joined to the dump site
OneTruckOneLoad ==
    /\ num_trucks = 1
    /\ truck_capacity > 0
    /\ SumSeq(node_capacities) <= truck_capacity
    /\ ~UnreachableMine

MinesWithCoal == {i \in 1..NumMines : node_capacities[i] > 0}

\* the trip is the cheapest among the orders of visiting its mines
CheapestOrder(trip) ==
    LET orders == Permutations(trip.order)
    IN  \A k \in 1..Len(orders) :
            ~CostLess(TripTime(adjacency, trip.route[1], orders[k]), trip.trip_time)

TakeAt(trip, i) ==
    SumSeq([j \in 1..Len(trip.order) |-> IF trip.order[j] = i THEN trip.takes[j] ELSE 0])
PickupsAt(i) == SumSeq([k \in 1..Len(procedure) |-> TakeAt(procedure[k], i)])
TripsTo(i) == {k \in 1..Len(procedure) : i \in Range(procedure[k].order)}

Elapsed(t) ==
    LET trips == TripsOf(t)
    IN  SumSeq([k \in 1..Len(trips) |-> trips[k].trip_time])

C17_MakespanAtLeastRoundTrip ==
    Solved =>
        \A i \in 1..NumMines :
            node_capacities[i] > 0 => CostGeq(min_total_time, RoundTrip(mines[i]))

C17_Witness ==
    /\ Solved
    /\ num_trucks = 2
    /\ \A i \in 1..NumMines : node_capacities[i] > 0
    /\ RoundTrip(mines[1]) > RoundTrip(mines[2])
    /\ min_total_time = RoundTrip(mines[1])
    /\ dijkstra(adjacency, Dump, mines[1])[1] > 0

\* key k2 is key k1 with the trucks in another order
SameFleetReordered(k1, k2) ==
    /\ k2[1] = k1[1]
    /\ Len(k2[2]) = Len(k1[2])
    /\ LET orders == Permutations([t \in 1..Len(k1[2]) |-> t])
       IN  \E j \in 1..Len(orders) :
              \A t \in 1..Len(k1[2]) :
                  /\ k2[2][t] = k1[2][orders[j][t]]
                  /\ k2[3][t] = k1[3][orders[j][t]]

\* a step of dp keeps the values it has stored, and a value it stores equals the
\* value stored for every key with the same fleet in another order
ValueOrderStep ==
    memo' # memo =>
        \A k1 \in DOMAIN memo' :
            IF k1 \in DOMAIN memo
            THEN memo'[k1] = memo[k1]
            ELSE \A k2 \in DOMAIN memo : SameFleetReordered(k1, k2) => memo'[k1] = memo[k2]

\* C18: the values dp computes for two keys that differ only in the order of the
\* trucks are the same.
C18_ValueIgnoresTruckOrder == [][ValueOrderStep]_vars

C18_Witness ==
    \E k1, k2 \in DOMAIN memo :
        /\ k1 # k2
        /\ SameFleetReordered(k1, k2)
        /\ ~AllZero(k1[1])
        /\ memo[k1] # Inf
        /\ memo[k1] > CostMaxSet(Range(k1[2]))


(***************************************************************************)
(* The base case of dp on its own: dp called on any fleet (truck times and *)
(* truck locations) over mines that are all empty.                         *)
(***************************************************************************)
TruckTimes == 0..MaxDist

TerminalInit ==
    /\ pc = "terminal"
    /\ edges \in Networks
    /\ node_capacities = [i \in 1..NumMines |-> 0]
    /\ truck_capacity = 1
    /\ num_trucks \in 1..MaxTrucks
    /\ w_state = node_capacities
    /\ w_times \in [1..num_trucks -> TruckTimes]
    /\ w_locs \in [1..num_trucks -> Sites]
    /\ truck_schedules = <<>>
    /\ procedure = <<>>
    /\ NoSolver
    /\ NoPlay
    /\ NoSim
    /\ query = <<>>

\* dp(state, truck_times, truck_locations)
DpOnTerminal ==
    /\ pc = "terminal"
    /\ Call(WalkKey, <<>>)
    /\ UNCHANGED <<inputVars, min_total_time, walkVars, playVars, query, simVars>>

TerminalSpec == TerminalInit /\ [][DpOnTerminal]_vars

\* what a truck adds to the value of a state without coal
ReturnTime(key, t) ==
    IF key[3][t] # Dump
    THEN CostAdd(key[2][t], dijkstra(adjacency, key[3][t], Dump)[1])
    ELSE key[2][t]

\* C19: the value dp memoizes for a state in which every mine is empty is the
\* largest, over the trucks, of the truck's time plus the cost of its way back
\* to the dump site (of its time alone for a truck at the dump site), and the
\* choice memoized for the state is the terminal marker.
C19_TerminalValueIsLatestReturn ==
    \A key \in DOMAIN memo :
        AllZero(key[1]) =>
            /\ memo[key] = CostMaxSet({ReturnTime(key, t) : t \in 1..Len(key[2])})
            /\ choice[key] = <<>>
            /\ ret = <<memo[key]>>

C19_Witness ==
    /\ pc = "solve"
    /\ num_trucks = 2
    /\ w_locs[1] # Dump /\ w_locs[2] = Dump
    /\ w_times[1] > 0 /\ w_times[2] > 0
    /\ ReturnTime(WalkKey, 1) # Inf
    /\ ReturnTime(WalkKey, 1) > w_times[2]
    /\ memo[WalkKey] = ReturnTime(WalkKey, 1)


(***************************************************************************)
(* The effect of a trip on the key dp recurses with.                       *)
(***************************************************************************)
\* key "after" differs from key "before" by trip a of truck a.truck_id only
OnlyTripApplied(before, a, after) ==
    /\ \A i \in 1..NumMines :
          IF i \in Range(a.order)
          THEN truck_capacity > 0 => after[1][i] <= before[1][i]
          ELSE after[1][i] = before[1][i]
    /\ after[2][a.truck_id] = CostAdd(before[2][a.truck_id], a.trip_time)
    /\ after[3][a.truck_id] = Dump
    /\ \A t \in 1..Len(before[2]) :
          t # a.truck_id => after[2][t] = before[2][t] /\ after[3][t] = before[3][t]

\* every activation of dp was called with the key of its caller changed by the
\* caller's trip only
FramesApplyTrips ==
    \A j \in 1..(Len(stack) - 1) :
        OnlyTripApplied(stack[j].key, stack[j].trip[1], stack[j + 1].key)

FrameStep ==
    /\ FramesApplyTrips'
    /\ \A j \in 1..Len(stack) : j <= Len(stack') => stack'[j].key = stack[j].key

\* C20: the key dp recurses with differs from the key of the caller only in the
\* coal of the mines the trip visits, in the time of the truck that runs it
\* (advanced by the trip's duration) and in its location (the dump site), and
\* the key of an activation never changes while the activation lasts.
C20_TripChangesOnlyItsOwn == [][FrameStep]_vars

C20_Witness ==
    /\ Len(stack) = 3
    /\ num_trucks = 2
    /\ stack[1].trip[1].truck_id # stack[2].trip[1].truck_id
    /\ Len(stack[1].trip[1].order) = 1
    /\ \E i \in 1..NumMines : stack[3].key[1][i] > 0 /\ stack[1].key[1][i] = stack[3].key[1][i]
    /\ stack[3].key[2][1] > 0 /\ stack[3].key[2][2] > 0


(***************************************************************************)
(* Ties between trips of the same makespan.                                *)
(***************************************************************************)
\* the values dp has stored for the keys that the trips cands of key lead to
ValuesAfter(key, cands) ==
    [k \in 1..Len(cands) |->
        memo[NextKey(key, Assignment(key, cands[k]), truck_capacity)]]

\* the number of the first trip, in the order of the loops, whose value is v
FirstWithValue(values, v) ==
    CHOOSE k \in 1..Len(values) :
        /\ values[k] = v
        /\ \A j \in 1..(k - 1) : values[j] # v

\* the trips of a state in the order of the loops: by truck, then by the number
\* of mines visited
LoopOrder(cands) ==
    \A j, k \in 1..Len(cands) :
        j < k =>
            \/ cands[j][1] < cands[k][1]
            \/ cands[j][1] = cands[k][1] /\ Len(cands[j][2]) <= Len(cands[k][2])

TieStep ==
    /\ (stack # <<>> /\ ret # <<>> /\ Len(stack') = Len(stack)
           /\ stack'[Len(stack)].best_assignment # Top.best_assignment) =>
          /\ CostLess(ret[1], Top.min_makespan)
          /\ stack'[Len(stack)].best_assignment = Top.trip
    /\ (memo' # memo /\ Len(stack') < Len(stack) /\ memo'[Top.key] # Inf) =>
          LET values == ValuesAfter(Top.key, Top.trips)
          IN  /\ Top.trips = Candidates(Top.key[1], truck_capacity, num_trucks)
              /\ LoopOrder(Top.trips)
              /\ choice'[Top.key] =
                    <<Assignment(Top.key, Top.trips[FirstWithValue(values, memo'[Top.key])])>>

ReturningKey ==
    IF Len(stack') < Len(stack) THEN Top.key
    ELSE IF stack = <<>> THEN InitialKey
    ELSE NextKey(Top.key, stack'[Len(stack)].trip[1], truck_capacity)

\* no state is in two activations of dp at once
NoStateExpandedTwice ==
    \A i, j \in 1..Len(stack) : i # j => stack[i].key # stack[j].key

WriteOnceStep ==
    /\ (memo' # memo \/ choice' # choice) =>
          /\ ret = <<>> /\ ret' # <<>>
          /\ \A key \in DOMAIN memo :
                key \in DOMAIN memo' /\ memo'[key] = memo[key] /\ choice'[key] = choice[key]
    /\ (ret = <<>> /\ ret' # <<>>) =>
          IF ReturningKey \in DOMAIN memo
          THEN /\ memo' = memo /\ choice' = choice
               /\ Len(stack') = Len(stack)
               /\ ret' = <<memo[ReturningKey]>>
          ELSE /\ DOMAIN memo' = DOMAIN memo \cup {ReturningKey}
               /\ DOMAIN choice' = DOMAIN memo'
               /\ ret' = <<memo'[ReturningKey]>>
    /\ truck_capacity > 0 => NoStateExpandedTwice'

ValidTrip(state, order) ==
    LET takes == LoadTrip(state, order, truck_capacity).takes
    IN  /\ Len(order) >= 1
        /\ \A k \in 1..Len(order) :
              /\ state[order[k]] > 0
              /\ takes[k] > 0
              /\ takes[k] <= state[order[k]]

NoNegativeCoal(state) == \A i \in 1..Len(state) : state[i] >= 0

TripsStep ==
    truck_capacity > 0 =>
        /\ Len(stack') > Len(stack) =>
              LET frame == stack'[Len(stack')]
              IN  /\ NoNegativeCoal(frame.key[1])
                  /\ \A k \in 1..Len(frame.trips) :
                        /\ frame.trips[k][1] \in 1..num_trucks
                        /\ ValidTrip(frame.key[1], frame.trips[k][2])
        /\ memo' # memo =>
              \A key \in DOMAIN memo' : NoNegativeCoal(key[1])

\* C23: with a positive capacity, every trip in the loops of an activation of
\* dp visits one mine or more, only mines that hold coal, and picks up at each
\* a positive amount that is no more than the mine holds, and no state dp is
\* called with has a mine with less than no coal.
C23_TripsTakeCoal == [][TripsStep]_vars

\* a trip that left coal in the mine it visited has been applied
C23_Witness ==
    /\ Len(stack) = 2
    /\ truck_capacity = 2
    /\ \E i \in 1..NumMines :
          /\ stack[1].key[1][i] = 3
          /\ stack[2].key[1][i] = 1
          /\ stack[1].trip[1].order = <<i>>
    /\ Len(stack[2].trips) >= 1

\* every visiting order of every non-empty set of the mines that hold coal
AllOrders(state) ==
    LET active == active_mines(state)
    IN  Flatten([r \in 1..Len(active) |->
          LET combos == Combinations(active, r)
          IN  Flatten([c \in 1..Len(combos) |-> Permutations(combos[c])])])

\* what a truck picks up in all on a trip, each pickup being the least of the
\* coal of the mine and the capacity left
CumulativePickup(state, order) == SumSeq(LoadTrip(state, order, truck_capacity).takes)

\* the truck picks up coal at every mine of the trip
EveryPickupPositive(state, order) ==
    \A k \in 1..Len(order) : LoadTrip(state, order, truck_capacity).takes[k] > 0

\* C24: with a positive capacity, the loops of every activation of dp hold a
\* trip for every truck and every visiting order of every non-empty set of
\* mines that hold coal whose cumulative pickup does not exceed the capacity
\* and is positive at every mine (the last pickups may be partial).
C24_EveryOrderWithinCapacityTried ==
    (truck_capacity > 0 /\ stack # <<>>) =>
        \A t \in 1..num_trucks :
            \A order \in Range(AllOrders(Top.key[1])) :
                (/\ CumulativePickup(Top.key[1], order) <= truck_capacity
                 /\ EveryPickupPositive(Top.key[1], order)) =>
                    \E k \in 1..Len(Top.trips) : Top.trips[k] = <<t, order>>


(***************************************************************************)
(* The playback against the timeline of the procedure.                     *)
(***************************************************************************)
\* the durations of the actions of a trip, summed
RECURSIVE ActionsTime(_)
ActionsTime(actions) ==
    IF Len(actions) = 0 THEN 0
    ELSE CostAdd(Head(actions).duration, ActionsTime(Tail(actions)))

\* every action of every trip of the schedules takes a positive time
DurationsPositive ==
    \A t \in Trucks : \A k \in 1..Len(truck_schedules[t]) :
        \A a \in 1..Len(truck_schedules[t][k]) : truck_schedules[t][k][a].duration > 0

\* the time at which truck t is back from trip number k of its trips
CompletionOf(t, k) == SumSeq([j \in 1..k |-> TripsOf(t)[j].trip_time])

\* the actions of every trip take the trip's time in all
ActionsTakeTripTime ==
    \A t \in Trucks :
        /\ Len(truck_schedules[t]) = Len(TripsOf(t))
        /\ \A k \in 1..Len(truck_schedules[t]) :
              ActionsTime(truck_schedules[t][k]) = TripsOf(t)[k].trip_time

\* a truck has completed exactly the trips whose completion time has passed
OnTimeline ==
    \A t \in Trucks :
        truck_states[t].current_trip =
            Cardinality({k \in 1..Len(TripsOf(t)) : CompletionOf(t, k) <= global_time})

\* C25 as stated: the actions of every trip take the trip's time in all, with
\* positive durations every truck has completed exactly the trips whose
\* completion time has passed, and the playback stops after as many ticks as
\* the makespan.
C25_PlaybackFollowsTimeline ==
    Walked =>
        /\ ActionsTakeTripTime
        /\ DurationsPositive =>
              /\ OnTimeline
              /\ pc = "done" => global_time = min_total_time

\* C25: the actions of every trip take the trip's time in all, with positive
\* durations every truck has completed exactly the trips whose completion time
\* has passed, and the playback of a procedure that has a trip stops after as
\* many ticks as the makespan; the playback of a procedure without a trip stops
\* after one tick.
C25_PlaybackFollowsTrips ==
    Walked =>
        /\ ActionsTakeTripTime
        /\ DurationsPositive =>
              /\ OnTimeline
              /\ pc = "done" =>
                    global_time = IF procedure = <<>> THEN 1 ELSE min_total_time

\* both trucks have completed a trip at different ticks, and the playback has
\* stopped
C25_Witness ==
    /\ pc = "done"
    /\ num_trucks = 2
    /\ DurationsPositive
    /\ Len(TripsOf(1)) >= 1 /\ Len(TripsOf(2)) >= 1
    /\ CompletionOf(1, Len(TripsOf(1))) # CompletionOf(2, Len(TripsOf(2)))
    /\ Len(procedure) >= 3
    /\ global_time = min_total_time


(***************************************************************************)
(* Where the trucks are in the states dp reaches.                          *)
(***************************************************************************)
AllAtDump(key) == \A t \in 1..Len(key[3]) : key[3][t] = Dump

DepotStep ==
    /\ Len(stack') > Len(stack) => AllAtDump(stack'[Len(stack')].key)
    /\ \A j \in 1..Len(stack') :
          stack'[j].trip # <<>> => stack'[j].trip[1].route[1] = Dump
    /\ memo' # memo =>
          \A key \in DOMAIN memo' :
              key \notin DOMAIN memo =>
                  /\ AllAtDump(key)
                  /\ AllZero(key[1]) =>
                        memo'[key] = CostMaxSet({key[2][t] : t \in 1..Len(key[2])})

\* C26: every state dp is called with from the initial state has every truck at
\* the dump site, every trip dp applies starts at the dump site, and the value
\* of a state without coal is the largest of the truck times.
C26_TrucksAtDump == [][DepotStep]_vars

\* both trucks have run a trip, and the state without coal that follows has
\* the value of the later truck
C26_Witness ==
    \E key \in DOMAIN memo :
        /\ AllZero(key[1])
        /\ Len(key[2]) = 2
        /\ key[2][1] > 0
        /\ key[2][2] > key[2][1]
        /\ AllAtDump(key)
        /\ memo[key] = key[2][2]


(***************************************************************************)
(* Termination of dp_min_time_multi_truck.                                 *)
(***************************************************************************)
\* every activation holds less coal than its caller, and the activations are no
\* more than the units of coal the mines started with
CoalDecreases ==
    /\ \A j \in 1..(Len(stack) - 1) : SumSeq(stack[j + 1].key[1]) < SumSeq(stack[j].key[1])
    /\ Len(stack) <= SumSeq(node_capacities)
    /\ pc # "RecursionError"

\* what is left of the loops of an activation: two for every trip not yet
\* tried, one less while the call for a trip is under way
FrameRank(frame) ==
    2 * (Len(frame.trips) - frame.next + 1) - (IF frame.trip # <<>> THEN 1 ELSE 0)

\* what is left of the solve: the ranks of the activations from the outermost
\* to the innermost
SolveRank ==
    [j \in 1..RecursionLimit |-> IF j <= Len(stack) THEN FrameRank(stack[j]) ELSE 0 - 1]

\* the sequence a comes before b in the lexicographic order
RECURSIVE LexLess(_, _)
LexLess(a, b) ==
    /\ Len(a) > 0 /\ Len(b) > 0
    /\ \/ Head(a) < Head(b)
       \/ Head(a) = Head(b) /\ LexLess(Tail(a), Tail(b))

\* some step of the solver can be taken
SolveCanStep ==
    \/ stack # <<>> /\ ret = <<>>
    \/ stack # <<>> /\ ret # <<>>
    \/ stack = <<>> /\ ret # <<>>

DecreaseStep ==
    truck_capacity > 0 =>
        /\ CoalDecreases'
        /\ Len(stack') > Len(stack) => SumSeq(stack'[Len(stack')].key[1]) > 0
        /\ (stack # <<>> /\ ret' # <<>> /\ Len(stack') = Len(stack)) =>
              SumSeq(NextKey(Top.key, stack'[Len(stack)].trip[1], truck_capacity)[1])
                  < SumSeq(Top.key[1])
        /\ pc = "solve" => (pc' = "walk" \/ LexLess(SolveRank', SolveRank))
        /\ pc' = "solve" => SolveCanStep'
        /\ \A j \in 1..Len(stack') : FrameRank(stack'[j]) >= 0

SimAtRest ==
    \A dt \in Dts :
        UpdateFrom(World(trucks, coal_mine, loading_queue), 1, dt)
            = World(trucks, coal_mine, loading_queue)

Unfinished == {i \in DOMAIN trucks : trucks[i].state # "finished"}

\* C28: once the coal mine is empty, as long as a truck is not 'finished' a
\* pass of the main loop changes something: the simulation never comes to rest
\* with the mine empty and a truck that is not 'finished' (such a truck would
\* never finish).
C28_EveryTruckFinishes ==
    (pc = "sim" /\ coal_mine.coal_amount = 0 /\ Unfinished # {}) => ~SimAtRest


(***************************************************************************)
(* Truck.py: the states of a truck.                                        *)
(***************************************************************************)
\* the changes of state Truck.update can make
StateChanges ==
    {<<"to_mine", "loading">>, <<"to_mine", "waiting">>, <<"waiting", "loading">>,
     <<"loading", "to_dump">>, <<"to_dump", "unloading">>, <<"unloading", "to_mine">>,
     <<"unloading", "finished">>}

CargoInBounds(truck) ==
    /\ truck.cargo >= 0
    /\ truck.cargo <= sim_input.truck_capacity
    /\ truck.cargo > 0 => truck.state \in {"to_dump", "unloading"}

StateStep ==
    \A i \in DOMAIN trucks :
        /\ trucks'[i].state # trucks[i].state =>
              <<trucks[i].state, trucks'[i].state>> \in StateChanges
        /\ trucks[i].state = "finished" => trucks'[i] = trucks[i]
        /\ CargoInBounds(trucks[i])
        /\ CargoInBounds(trucks'[i])

\* C29: in a pass of the main loop a truck keeps its state or changes it along
\* to_mine -> loading, to_mine -> waiting, waiting -> loading, loading ->
\* to_dump, to_dump -> unloading, unloading -> to_mine or unloading -> finished;
\* a truck that is 'finished' does not change; a truck has cargo only in
\* 'to_dump' or 'unloading', and never more than its capacity.
C29_TruckStateMachine == [][StateStep]_vars

\* a truck is on its second way to the mine, another is finished and a third
\* is waiting
C29_Witness ==
    /\ pc = "sim"
    /\ \E i \in DOMAIN trucks : trucks[i].state = "to_mine" /\ trucks[i].trips_completed >= 1
    /\ \E i \in DOMAIN trucks : trucks[i].state = "finished"
    /\ \E i \in DOMAIN trucks : trucks[i].state = "waiting"


(***************************************************************************)
(* Truck.py: the loading queue.                                            *)
(***************************************************************************)
\* the ids of the trucks in one of the states sts
IdsIn(ts, sts) == {ts[i].id : i \in {j \in DOMAIN ts : ts[j].state \in sts}}

QueueInOrder(ts, queue) ==
    /\ \A j, k \in DOMAIN queue : j # k => queue[j] # queue[k]
    /\ IdsIn(ts, {"loading", "waiting"}) = Range(queue)
    /\ \A id \in IdsIn(ts, {"loading"}) : Head(queue) = id
    /\ Cardinality(IdsIn(ts, {"loading"})) <= 1

\* the ids of the trucks that finish loading in a step
FinishedLoading ==
    {trucks[i].id : i \in {j \in DOMAIN trucks :
                              trucks[j].state = "loading" /\ trucks'[j].state # "loading"}}

QueueStep ==
    /\ QueueInOrder(trucks, loading_queue)
    /\ QueueInOrder(trucks', loading_queue')
    /\ Range(loading_queue) \ Range(loading_queue') = FinishedLoading

\* C30: the loading queue holds no truck twice, it holds exactly the trucks that
\* are 'loading' or 'waiting', the truck that is 'loading' is at its head, and
\* the trucks that leave the queue in a pass of the main loop are exactly those
\* that finish loading in it.
C30_QueueHoldsLoadersAndWaiters == [][QueueStep]_vars

\* a truck that has been through the queue before is loading at its head, with
\* another truck behind it
C30_Witness ==
    /\ pc = "sim"
    /\ Len(loading_queue) >= 2
    /\ \E i \in DOMAIN trucks :
          /\ trucks[i].id = Head(loading_queue)
          /\ trucks[i].state = "loading"
          /\ trucks[i].trips_completed >= 1
====
